---- MODULE Spec2Model ----
(***************************************************************************)
(* A model of cleanup_stale_branches.py: the module-level configuration,   *)
(* the start-up of the `clean` command and its per-branch guard chain.     *)
(*                                                                         *)
(* Text (branch names, remote names, process output) is a tuple of         *)
(* one-character strings, so that lower(), strip(), split(), startswith()  *)
(* and the issue-id regular expression are computed character by           *)
(* character.  Python's None is the empty tuple: every place that tests    *)
(* such a value tests its truthiness, where None and "" agree.             *)
(***************************************************************************)
EXTENDS Naturals, Sequences, FiniteSets

VARIABLES
    env,        \* the process environment: PROTECTED_BRANCHES, CRITICAL_BRANCHES, BASE_BRANCH_FOR_COMMIT_CHECK
    refs,       \* the repository: local branch names under refs/heads, in for-each-ref order
    HEAD,       \* the repository: the checked-out branch name (empty when detached)
    PROTECTED,  \* module global
    CRITICAL,   \* module global
    BASE_BRANCH_FOR_COMMIT_CHECK, \* module global
    opts,       \* the options of the clean command
    protected,  \* clean's local: PROTECTED plus the --protect additions
    critical,   \* clean's local
    cur,        \* clean's local: current_branch()
    branches,   \* clean's local: the snapshot local_branches() returned
    i,          \* how many elements of branches the for loop has taken
    b,          \* the loop variable
    pc,         \* position in the program
    out,        \* the lines printed on standard output
    stderr,     \* the error that ended the run, as reported on standard error
    calls,      \* the facade calls made so far in the current iteration
    obs,        \* what the facade answered in the current iteration
    cls,        \* the classification of b decided in the current iteration
    exit        \* the process's exit status <<code>>, empty while it runs

vars == <<env, refs, HEAD, PROTECTED, CRITICAL, BASE_BRANCH_FOR_COMMIT_CHECK, opts,
          protected, critical, cur, branches, i, b, pc, out, stderr, calls, obs, cls, exit>>

-----------------------------------------------------------------------------
(* Bounds *)

\* the longest list of local branches a repository holds
MaxBranches == 2

-----------------------------------------------------------------------------
(* Text *)

None == << >>

UpperChars == <<"A","B","C","D","E","F","G","H","I","J","K","L","M",
                "N","O","P","Q","R","S","T","U","V","W","X","Y","Z">>
LowerChars == <<"a","b","c","d","e","f","g","h","i","j","k","l","m",
                "n","o","p","q","r","s","t","u","v","w","x","y","z">>
Digits == {"0","1","2","3","4","5","6","7","8","9"}
Whitespace == {" ", "\t", "\n", "\r"}

\* the lower-case letter of each upper-case letter
LowerOf ==
    [c \in { UpperChars[k] : k \in DOMAIN UpperChars } |->
        LowerChars[CHOOSE k \in DOMAIN UpperChars : UpperChars[k] = c]]

LowerChar(c) == IF c \in DOMAIN LowerOf THEN LowerOf[c] ELSE c

\* str.lower()
Lower(s) == [k \in DOMAIN s |-> LowerChar(s[k])]

\* str.strip()
RECURSIVE LStrip(_)
LStrip(s) == IF s # << >> /\ Head(s) \in Whitespace THEN LStrip(Tail(s)) ELSE s

RECURSIVE RStrip(_)
RStrip(s) ==
    IF s # << >> /\ s[Len(s)] \in Whitespace THEN RStrip(SubSeq(s, 1, Len(s) - 1)) ELSE s

Strip(s) == RStrip(LStrip(s))

\* str.split(","): the pieces between commas, at least one piece
RECURSIVE Split(_)
Split(s) ==
    IF \E k \in DOMAIN s : s[k] = ","
    THEN LET k == CHOOSE k \in DOMAIN s : s[k] = "," /\ \A j \in 1..(k - 1) : s[j] # ","
         IN  <<SubSeq(s, 1, k - 1)>> \o Split(SubSeq(s, k + 1, Len(s)))
    ELSE <<s>>

\* str.startswith(p)
StartsWith(s, p) == Len(p) <= Len(s) /\ SubSeq(s, 1, Len(p)) = p

\* p in s
Contains(s, p) == \E k \in 0..(Len(s) - Len(p)) : SubSeq(s, k + 1, k + Len(p)) = p

\* { x.strip().lower() for x in value.split(",") if x.strip() }
BranchSet(value) ==
    LET pieces == Split(value)
    IN  { Lower(Strip(pieces[k])) : k \in { j \in DOMAIN pieces : Strip(pieces[j]) # << >> } }

-----------------------------------------------------------------------------
(* The names and values the runs are drawn from *)

s_main == <<"m","a","i","n">>
s_Dev  == <<"D","e","v">>
s_dev  == <<"d","e","v">>
s_fx   == <<"f","x">>
s_FX   == <<"F","X">>
s_4x   == <<"4","-","x">>
s_4    == <<"4","x">>
s_o    == <<"o">>
s_fatal == <<"f","a","t","a","l",":">>

\* local branch names a repository may hold
BranchNames == {s_main, s_Dev, s_fx, s_4x, s_4}

\* values of the environment variables: the first of each resolves to a
\* non-empty set (or name), the second to an empty one
ProtectedEnvValues == { s_main, <<" ",","," ">> }
CriticalEnvValues  == { <<" ","D","E","V",","," ">>, << >> }
BaseEnvValues      == { s_dev, <<" ">> }

\* values of --protect
ProtectValues == { << >>, << <<" ">> \o s_FX, <<" ">> >> }

\* what `git rev-parse --abbrev-ref <b>@{upstream}` may print on stdout
UpstreamOutputs(branch) ==
    { << >>, s_o \o <<"/">> \o branch, s_o \o <<"x","/">> \o branch, s_fatal \o <<" ">> \o branch }

\* the sequences over S of length at most n
RECURSIVE SeqsUpTo(_, _)
SeqsUpTo(S, n) ==
    IF n = 0 THEN { << >> }
    ELSE LET shorter == SeqsUpTo(S, n - 1)
         IN  shorter \cup { Append(s, x) : s \in { t \in shorter : Len(t) = n - 1 },
                                           x \in S }
Range(s) == { s[k] : k \in DOMAIN s }
NoDup(s) == \A j, k \in DOMAIN s : s[j] = s[k] => j = k

\* up: upstream_for(b); issue_id: issue_id_from_branch(b); closure:
\* base_has_issue_closure(..); in_base: commit_in_base(..); remote_exists:
\* remote_branch_exists(..); returncode: of git merge-base; on_remote: whether the remote really holds a head
\* named b; lookup_failed: whether git ls-remote failed
NoObs == [up |-> None, issue_id |-> None, closure |-> FALSE, in_base |-> FALSE,
          returncode |-> 0,
          remote_exists |-> FALSE, on_remote |-> FALSE, lookup_failed |-> FALSE]
NoCls == [action |-> "None", reason |-> ""]
NoOpts == [repo |-> "ok", remote |-> s_o, base |-> None, dry_run |-> FALSE, force |-> FALSE,
           protect |-> << >>, check_upstream_missing |-> FALSE,
           check_remote_missing |-> FALSE, check_issue_closure |-> FALSE]

-----------------------------------------------------------------------------
Init ==
    /\ env \in [PROTECTED_BRANCHES : ProtectedEnvValues,
                CRITICAL_BRANCHES : CriticalEnvValues,
                BASE_BRANCH_FOR_COMMIT_CHECK : BaseEnvValues]
    /\ refs \in { s \in SeqsUpTo(BranchNames, MaxBranches) : NoDup(s) }
    /\ HEAD \in {None} \cup Range(refs)
    /\ PROTECTED = {}
    /\ CRITICAL = {}
    /\ BASE_BRANCH_FOR_COMMIT_CHECK = None
    /\ opts = NoOpts
    /\ protected = {}
    /\ critical = {}
    /\ cur = None
    /\ branches = << >>
    /\ i = 0
    /\ b = None
    /\ pc = "import"
    /\ out = << >>
    /\ stderr = ""
    /\ calls = << >>
    /\ obs = NoObs
    /\ cls = NoCls
    /\ exit = << >>

-----------------------------------------------------------------------------
(* Module level: the configuration read at import *)

\* An exception nothing catches ends the interpreter with status 1.
Uncaught(message) ==
    /\ pc' = "exit"
    /\ stderr' = message
    /\ exit' = <<1>>

\* raise typer.Exit(code=2), and click's own usage errors
Exit2(message) ==
    /\ pc' = "exit"
    /\ stderr' = message
    /\ exit' = <<2>>

\* the step ends neither the run nor writes to standard error
Goes(next) ==
    /\ pc' = next
    /\ UNCHANGED <<stderr, exit>>

LoadConfig ==
    /\ pc = "import"
    /\ PROTECTED' = BranchSet(env.PROTECTED_BRANCHES)
    /\ CRITICAL' = BranchSet(env.CRITICAL_BRANCHES)
    /\ BASE_BRANCH_FOR_COMMIT_CHECK' = Strip(env.BASE_BRANCH_FOR_COMMIT_CHECK)
    /\ IF PROTECTED' = {}
       THEN Uncaught("PROTECTED_BRANCHES resolved to an empty set")
       ELSE IF CRITICAL' = {}
       THEN Uncaught("CRITICAL_BRANCHES resolved to an empty set")
       ELSE IF BASE_BRANCH_FOR_COMMIT_CHECK' = << >>
       THEN Uncaught("BASE_BRANCH_FOR_COMMIT_CHECK is required")
       ELSE Goes("cli")
    /\ UNCHANGED <<env, refs, HEAD, opts, protected, critical, cur, branches, i, b,
                   out, calls, obs, cls>>

-----------------------------------------------------------------------------
(* The clean command *)

\* The command line is parsed into clean's parameters; --repo is declared
\* exists=True, so a path that does not exist is a usage error.
ParseOptions ==
    /\ pc = "cli"
    /\ \E repo \in {"missing", "not a directory", "no .git", "ok"},
          dry_run \in BOOLEAN, force \in BOOLEAN, protect \in ProtectValues,
          check_upstream_missing \in BOOLEAN, check_remote_missing \in BOOLEAN,
          check_issue_closure \in BOOLEAN :
          opts' = [repo |-> repo, remote |-> s_o, base |-> BASE_BRANCH_FOR_COMMIT_CHECK,
                   dry_run |-> dry_run, force |-> force, protect |-> protect,
                   check_upstream_missing |-> check_upstream_missing,
                   check_remote_missing |-> check_remote_missing,
                   check_issue_closure |-> check_issue_closure]
    /\ IF opts'.repo = "missing"
       THEN Exit2("Invalid value for '--repo': path does not exist")
       ELSE Goes("clean")
    /\ UNCHANGED <<env, refs, HEAD, PROTECTED, CRITICAL, BASE_BRANCH_FOR_COMMIT_CHECK,
                   protected, critical, cur, branches, i, b, out, calls, obs, cls>>

\* ensure_git_repo(path): the message of the RuntimeError it raises, or ""
ensure_git_repo(repo) ==
    IF repo \in {"missing", "not a directory"} THEN "Path does not exist"
    ELSE IF repo = "no .git" THEN "Not a git repo"
    ELSE ""

\* Lines 171-191.  The facade calls that may raise RuntimeError here are
\* current_branch() and local_branches(); the pre-run fetch and the check of
\* the base reference are made with check=False.
StartUp ==
    /\ pc = "clean"
    /\ protected' = PROTECTED \cup
           { Lower(Strip(opts.protect[k])) :
               k \in { j \in DOMAIN opts.protect : Strip(opts.protect[j]) # << >> } }
    /\ critical' = CRITICAL
    /\ \E fetch \in BOOLEAN, current_ok \in BOOLEAN, list_ok \in BOOLEAN, base_ok \in BOOLEAN :
          IF ensure_git_repo(opts.repo) # ""
          THEN /\ Exit2(ensure_git_repo(opts.repo))
               /\ UNCHANGED <<cur, branches>>
          ELSE IF ~current_ok
          THEN /\ Exit2("Command failed: git branch --show-current")
               /\ UNCHANGED <<cur, branches>>
          ELSE /\ cur' = HEAD
               /\ IF ~list_ok
                  THEN /\ Exit2("Command failed: git for-each-ref")
                       /\ UNCHANGED branches
                  ELSE /\ branches' = refs
                       /\ IF ~base_ok THEN Exit2("Base ref not found") ELSE Goes("for")
    /\ UNCHANGED <<env, refs, HEAD, PROTECTED, CRITICAL, BASE_BRANCH_FOR_COMMIT_CHECK,
                   opts, i, b, out, calls, obs, cls>>

\* for b in branches: take the next branch, or return when none is left.
ForLoop ==
    /\ pc = "for"
    /\ IF i < Len(branches)
       THEN /\ i' = i + 1
            /\ b' = branches[i + 1]
            /\ calls' = << >>
            /\ obs' = NoObs
            /\ cls' = NoCls
            /\ Goes("current")
       ELSE /\ pc' = "exit"
            /\ exit' = <<0>>
            /\ UNCHANGED <<stderr, i, b, calls, obs, cls>>
    /\ UNCHANGED <<env, refs, HEAD, PROTECTED, CRITICAL, BASE_BRANCH_FOR_COMMIT_CHECK,
                   opts, protected, critical, cur, branches, out>>

Line(tag, branch, info) == [tag |-> tag, branch |-> branch, info |-> info]

\* print(f"[SKIP] {b} (...)") or print(f"[KEEP] {b} (...)"), then continue
Continue(tag, action, reason) ==
    /\ out' = Append(out, Line(tag, b, reason))
    /\ cls' = [action |-> action, reason |-> reason]
    /\ Goes("for")

\* Faulty variant of Skip: the branch is skipped without a line being printed.
Skip_silently(reason) ==
    /\ out' = out
    /\ cls' = [action |-> "Skip", reason |-> reason]
    /\ Goes("for")

Skip(reason) == Continue("[SKIP]", "Skip", reason)
Keep(reason) == Continue("[KEEP]", "Keep", reason)

\* the guard did not fire: fall through to the next one
Fall(next) ==
    /\ Goes(next)
    /\ UNCHANGED <<out, cls>>

config == <<env, PROTECTED, CRITICAL, BASE_BRANCH_FOR_COMMIT_CHECK, opts, protected,
            critical, cur, branches, i, b>>

\* Faulty variant of IsCurrent: --force lifts the current-branch guard.
IsCurrent_unless_force(branch) == branch = cur /\ ~opts.force

IsCurrent(branch) == branch = cur

IsProtected(branch) == Lower(branch) \in protected
\* Faulty variant of IsCritical: the name is compared as written.
IsCritical_as_written(branch) == branch \in critical

IsCritical(branch) == Lower(branch) \in critical

GuardCurrent ==
    /\ pc = "current"
    /\ IF IsCurrent(b) THEN Skip("current") ELSE Fall("protected")
    /\ UNCHANGED <<config, refs, HEAD, calls, obs>>

GuardProtected ==
    /\ pc = "protected"
    /\ IF IsProtected(b) THEN Skip("protected") ELSE Fall("critical")
    /\ UNCHANGED <<config, refs, HEAD, calls, obs>>

GuardCritical ==
    /\ pc = "critical"
    /\ IF IsCritical(b) THEN Skip("critical") ELSE Fall("upstream")
    /\ UNCHANGED <<config, refs, HEAD, calls, obs>>

\* upstream_for(branch), given the stripped stdout of git rev-parse (check=False)
upstream_for(stdout) ==
    IF stdout # << >> /\ ~Contains(stdout, s_fatal) THEN stdout ELSE None

\* not up or not up.startswith(f"{remote}/")
UpstreamMissing(up, remote) == up = None \/ ~StartsWith(up, remote \o <<"/">>)

GuardUpstream ==
    /\ pc = "upstream"
    /\ IF opts.check_upstream_missing
       THEN \E stdout \in UpstreamOutputs(b) :
               /\ calls' = Append(calls, "upstream_for")
               /\ obs' = [obs EXCEPT !.up = upstream_for(stdout)]
               /\ IF UpstreamMissing(obs'.up, opts.remote)
                  THEN Skip("local-only or non-remote upstream")
                  ELSE Fall("issue")
       ELSE /\ Fall("issue")
            /\ UNCHANGED <<calls, obs>>
    /\ UNCHANGED <<config, refs, HEAD>>

\* the number of leading digits of s
RECURSIVE DigitPrefixLen(_)
DigitPrefixLen(s) ==
    IF s # << >> /\ Head(s) \in Digits THEN 1 + DigitPrefixLen(Tail(s)) ELSE 0

\* Faulty variant of issue_id_from_branch: the pattern lacks the separator,
\* r"^(\d+).+".
issue_id_without_separator(branch) ==
    LET n == DigitPrefixLen(branch)
    IN  IF n >= 1 /\ Len(branch) >= n + 1 /\ branch[n + 1] # "\n"
        THEN SubSeq(branch, 1, n)
        ELSE None

\* re.match(r"^(\d+)[-_].+", branch): group 1, or None
issue_id_from_branch(branch) ==
    LET n == DigitPrefixLen(branch)
    IN  IF /\ n >= 1
           /\ Len(branch) >= n + 2
           /\ branch[n + 1] \in {"-", "_"}
           /\ branch[n + 2] # "\n"
        THEN SubSeq(branch, 1, n)
        ELSE None

GuardIssue ==
    /\ pc = "issue"
    /\ IF opts.check_issue_closure
       THEN IF issue_id_from_branch(b) = None
            THEN /\ Skip("no issue id prefix for closure check")
                 /\ UNCHANGED <<calls, obs>>
            ELSE \E found \in BOOLEAN :
                    /\ calls' = Append(calls, "base_has_issue_closure")
                    /\ obs' = [obs EXCEPT !.issue_id = issue_id_from_branch(b),
                                          !.closure = found]
                    /\ IF ~found
                       THEN Keep("no issue-closure marker on base")
                       ELSE Fall("ancestry")
       ELSE /\ Fall("ancestry")
            /\ UNCHANGED <<calls, obs>>
    /\ UNCHANGED <<config, refs, HEAD>>

\* Faulty variant of commit_in_base: only return code 1 counts as "not an
\* ancestor", so an error of git merge-base counts as contained.
commit_in_base_unless_one(returncode) == returncode # 1

\* commit_in_base(commit, base), given the return code of
\* git merge-base --is-ancestor: 0 ancestor, 1 not an ancestor, 128 error
commit_in_base(returncode) == returncode = 0

\* Faulty variant of GuardAncestry: the `continue` after the [KEEP] line is
\* missing, so the remote-presence guard is entered for a branch already kept.
GuardAncestry_without_continue ==
    /\ pc = "ancestry"
    /\ \E tip_ok \in BOOLEAN, returncode \in {0, 1, 128} :
          IF ~tip_ok
          THEN /\ calls' = Append(calls, "tip_sha")
               /\ Uncaught("Command failed: git rev-parse")
               /\ UNCHANGED <<obs, out, cls>>
          ELSE /\ calls' = calls \o <<"tip_sha", "commit_in_base">>
               /\ obs' = [obs EXCEPT !.returncode = returncode,
                                     !.in_base = (returncode = 0)]
               /\ IF ~obs'.in_base
                  THEN /\ out' = Append(out, Line("[KEEP]", b, "tip NOT in base"))
                       /\ cls' = [action |-> "Keep", reason |-> "tip NOT in base"]
                       /\ Goes("remote")
                  ELSE Fall("remote")
    /\ UNCHANGED <<config, refs, HEAD>>

\* Lines 221-224.  tip_sha runs git rev-parse with check=True: its failure
\* raises RuntimeError inside the loop, where nothing catches it.
GuardAncestry ==
    /\ pc = "ancestry"
    /\ \E tip_ok \in BOOLEAN, returncode \in {0, 1, 128} :
          IF ~tip_ok
          THEN /\ calls' = Append(calls, "tip_sha")
               /\ Uncaught("Command failed: git rev-parse")
               /\ UNCHANGED <<obs, out, cls>>
          ELSE /\ calls' = calls \o <<"tip_sha", "commit_in_base">>
               /\ obs' = [obs EXCEPT !.returncode = returncode,
                                     !.in_base = commit_in_base(returncode)]
               /\ IF ~obs'.in_base THEN Keep("tip NOT in base") ELSE Fall("remote")
    /\ UNCHANGED <<config, refs, HEAD>>

\* the stdout of git ls-remote --heads <remote> <branch>, run with check=False:
\* one line per matching head, nothing when there is none or the command failed
LsRemoteOutput(branch, on_remote, failed) ==
    IF on_remote /\ ~failed THEN <<"r","e","f","s","/","h","e","a","d","s","/">> \o branch
    ELSE << >>

\* bool(out.strip())
remote_branch_exists(stdout) == Strip(stdout) # << >>

GuardRemote ==
    /\ pc = "remote"
    /\ IF opts.check_remote_missing
       THEN \E on_remote \in BOOLEAN, failed \in BOOLEAN :
               /\ calls' = Append(calls, "remote_branch_exists")
               /\ obs' = [obs EXCEPT
                            !.on_remote = on_remote,
                            !.lookup_failed = failed,
                            !.remote_exists =
                                remote_branch_exists(LsRemoteOutput(b, on_remote, failed))]
               /\ IF obs'.remote_exists THEN Keep("exists on remote") ELSE Fall("delete")
       ELSE /\ Fall("delete")
            /\ UNCHANGED <<calls, obs>>
    /\ UNCHANGED <<config, refs, HEAD>>

\* ["git", "branch", "-D" if force else "-d", branch], without the branch
DeleteCommand(force) == IF force THEN "git branch -D" ELSE "git branch -d"

\* the list s without the element x
Without(s, x) == SelectSeq(s, LAMBDA y : y # x)

\* Faulty variant of delete_branch: --force overrides --dry-run.
delete_branch_force_first(printed, branch, force, dry_run) ==
    IF dry_run /\ ~force
    THEN /\ out' = Append(printed, Line("[DRY]", branch, DeleteCommand(force)))
         /\ calls' = Append(calls, "delete_branch")
         /\ Goes("for")
         /\ UNCHANGED refs
    ELSE /\ out' = printed
         /\ calls' = calls \o <<"delete_branch", DeleteCommand(force)>>
         /\ \E deleted \in BOOLEAN :
               IF deleted
               THEN /\ refs' = Without(refs, branch)
                    /\ Goes("for")
               ELSE /\ Uncaught("Command failed: git branch")
                    /\ UNCHANGED refs

\* delete_branch(branch, force, dry_run), called with `printed` on standard
\* output: it prints the [DRY] line, or runs git branch with check=True, whose
\* failure raises RuntimeError that nothing catches.
delete_branch(printed, branch, force, dry_run) ==
    IF dry_run
    THEN /\ out' = Append(printed, Line("[DRY]", branch, DeleteCommand(force)))
         /\ calls' = Append(calls, "delete_branch")
         /\ Goes("for")
         /\ UNCHANGED refs
    ELSE /\ out' = printed
         /\ calls' = calls \o <<"delete_branch", DeleteCommand(force)>>
         /\ \E deleted \in BOOLEAN :
               IF deleted
               THEN /\ refs' = Without(refs, branch)
                    /\ Goes("for")
               ELSE /\ Uncaught("Command failed: git branch")
                    /\ UNCHANGED refs

\* Lines 230-231: the [DEL ] line is printed, then delete_branch is called.
DefaultDelete ==
    /\ pc = "delete"
    /\ cls' = [action |-> "Delete", reason |-> "tip is in base"]
    /\ delete_branch(Append(out, Line("[DEL ]", b, "tip is in base")), b,
                     opts.force, opts.dry_run)
    /\ UNCHANGED <<config, HEAD, obs>>

Next ==
    \/ LoadConfig
    \/ ParseOptions
    \/ StartUp
    \/ ForLoop
    \/ GuardCurrent
    \/ GuardProtected
    \/ GuardCritical
    \/ GuardUpstream
    \/ GuardIssue
    \/ GuardAncestry
    \/ GuardRemote
    \/ DefaultDelete

Spec == Init /\ [][Next]_vars

-----------------------------------------------------------------------------
(* What the properties speak of *)

\* the protected set the run is configured with: the set resolved from the
\* environment plus the --protect additions, lower-cased, blanks dropped
ProtectedNames ==
    PROTECTED \cup ({ Lower(Strip(opts.protect[k])) : k \in DOMAIN opts.protect } \ { << >> })

\* the critical set the run is configured with
CriticalNames == CRITICAL

\* the name starts with one or more digits followed by '-' or '_'
HasIssuePrefix(name) ==
    \E n \in 1..Len(name) :
        /\ \A k \in 1..n : name[k] \in Digits
        /\ n + 1 <= Len(name)
        /\ name[n + 1] \in {"-", "_"}

\* the loop is at a branch: b is an element of branches
AtBranch == i >= 1

\* delete_branch was called for b
DeleteInvoked == \E k \in DOMAIN calls : calls[k] = "delete_branch"

\* git branch -d or -D was run for b
GitBranchRun == \E k \in DOMAIN calls : calls[k] \in {"git branch -d", "git branch -D"}

\* the lines that classify a branch
StatusLines == SelectSeq(out, LAMBDA l : l.tag # "[DRY]")

\* the run returned from clean normally
Completed == pc = "exit" /\ exit = <<0>>

-----------------------------------------------------------------------------
(* C1 *)

\* C1: delete_branch is invoked for b only if b is not the current branch,
\* lower(b) is in neither the protected nor the critical set, b's tip was
\* reported contained in the base, and every enabled optional check passed:
\* an upstream on the configured remote, an issue-id prefix with a closure
\* marker on the base, and the branch not present on the remote.
C1_DeleteOnlyWhenEveryCheckPassed ==
    DeleteInvoked =>
        /\ b # HEAD
        /\ Lower(b) \notin ProtectedNames \cup CriticalNames
        /\ obs.in_base
        /\ opts.check_upstream_missing =>
              obs.up # None /\ StartsWith(obs.up, opts.remote \o <<"/">>)
        /\ opts.check_issue_closure => HasIssuePrefix(b) /\ obs.closure
        /\ opts.check_remote_missing => ~obs.on_remote

-----------------------------------------------------------------------------
(* C2 *)

\* C2: a branch equal to the checked-out branch is classified Skip with
\* reason current, no facade call and no delete is made for it, every line
\* printed for it is a [SKIP] line, and it stays among the local branches,
\* whatever the flags, the configured sets and the oracles' answers.
C2_CurrentBranchIsSkipped ==
    /\ (AtBranch /\ b = HEAD /\ pc # "current") =>
          /\ cls = [action |-> "Skip", reason |-> "current"]
          /\ calls = << >>
    /\ \A k \in DOMAIN out : out[k].branch = HEAD => out[k].tag = "[SKIP]"
    /\ HEAD # None => HEAD \in Range(refs)

C2_Witness ==
    /\ AtBranch /\ b = HEAD /\ b = s_fx
    /\ cls.reason = "current"
    /\ opts.force /\ ~opts.dry_run
    /\ ~opts.check_upstream_missing /\ ~opts.check_issue_closure /\ ~opts.check_remote_missing

-----------------------------------------------------------------------------
(* C3 *)

\* C3: a branch whose lower-cased name is in the protected set (environment
\* list plus --protect additions) or in the critical set is classified Skip
\* before any facade call, every line printed for it is a [SKIP] line, and it
\* stays among the local branches, whatever the case of its name.
C3_ProtectedAndCriticalAreSkipped ==
    LET exempt == ProtectedNames \cup CriticalNames
    IN  /\ (/\ AtBranch
            /\ Lower(b) \in exempt
            /\ pc \notin {"current", "protected", "critical"}) =>
              /\ cls.action = "Skip"
              /\ cls.reason \in {"current", "protected", "critical"}
              /\ calls = << >>
        /\ \A k \in DOMAIN out : Lower(out[k].branch) \in exempt => out[k].tag = "[SKIP]"
        /\ \A k \in 1..i : Lower(branches[k]) \in exempt => branches[k] \in Range(refs)

C3_Witness ==
    /\ AtBranch /\ b = s_Dev /\ b # HEAD
    /\ cls = [action |-> "Skip", reason |-> "critical"]
    /\ opts.force /\ ~opts.dry_run

-----------------------------------------------------------------------------
(* C4 *)

\* C4: when the ancestry test was made for b and did not report the tip as
\* contained in the base (git's return code is not 0, commit_in_base is
\* false), b is classified Keep and a [KEEP] line is the last one printed.
C4_NotInBaseIsKept ==
    (/\ AtBranch
     /\ \E k \in DOMAIN calls : calls[k] = "commit_in_base"
     /\ obs.returncode # 0 \/ ~obs.in_base) =>
        /\ cls = [action |-> "Keep", reason |-> "tip NOT in base"]
        /\ out # << >>
        /\ out[Len(out)] = Line("[KEEP]", b, "tip NOT in base")
        /\ ~DeleteInvoked

C4_Witness ==
    /\ AtBranch
    /\ \E k \in DOMAIN calls : calls[k] = "commit_in_base"
    /\ obs.returncode = 128
    /\ cls.action = "Keep"
    /\ opts.force /\ opts.check_remote_missing

-----------------------------------------------------------------------------
(* C5 *)

\* C5: with checkIssueClosure enabled, a branch whose name does not start
\* with digits followed by '-' or '_' never reaches the ancestry guard, is
\* classified Skip once its guards are done, and gets only [SKIP] lines.
C5_NoIssuePrefixIsSkipped ==
    /\ (opts.check_issue_closure /\ AtBranch /\ ~HasIssuePrefix(b)) =>
          /\ pc \notin {"ancestry", "remote", "delete"}
          /\ cls.action \in {"None", "Skip"}
          /\ pc \in {"for", "exit"} => cls.action = "Skip"
          /\ ~DeleteInvoked
    /\ \A k \in DOMAIN out :
          (opts.check_issue_closure /\ ~HasIssuePrefix(out[k].branch)) =>
              out[k].tag = "[SKIP]"

C5_Witness ==
    /\ opts.check_issue_closure /\ AtBranch /\ b = s_4
    /\ cls = [action |-> "Skip", reason |-> "no issue id prefix for closure check"]
    /\ opts.force /\ ~opts.dry_run

-----------------------------------------------------------------------------
(* C6 *)

\* the errors the claim lists: a missing or invalid repository path, an empty
\* protected or critical set, an unresolved base reference, and a failure of
\* listing the branches, of resolving the current branch or of resolving a tip
ListedFailures ==
    { "Invalid value for '--repo': path does not exist",
      "Path does not exist",
      "Not a git repo",
      "PROTECTED_BRANCHES resolved to an empty set",
      "CRITICAL_BRANCHES resolved to an empty set",
      "Base ref not found",
      "Command failed: git for-each-ref",
      "Command failed: git branch --show-current",
      "Command failed: git rev-parse" }

\* C6: the run ends with exit code 2 on each of the listed failures, and with
\* exit code 0 only when every branch was processed without such a failure.
C6_ExitCodes ==
    pc = "exit" =>
        /\ stderr \in ListedFailures => exit = <<2>>
        /\ exit = <<0>> => stderr = "" /\ i = Len(branches)

-----------------------------------------------------------------------------
(* C7 *)

\* C7, as claimed: a run that completes has printed exactly one line per
\* enumerated branch, in enumeration order, each tagged [SKIP], [KEEP],
\* [DEL ] or [DRY]; a deletion suppressed by dry-run gives a single [DRY] line.
C7_OneLinePerBranch ==
    Completed =>
        /\ Len(out) = Len(branches)
        /\ \A k \in DOMAIN out :
              /\ out[k].branch = branches[k]
              /\ out[k].tag \in {"[SKIP]", "[KEEP]", "[DEL ]", "[DRY]"}

\* C7, amended: whenever the loop is between two branches, and when the run
\* has completed, the lines tagged [SKIP], [KEEP] or [DEL ] are exactly one
\* per branch taken so far, in enumeration order, each with the branch's name
\* and a reason; a completed run has taken every branch; a [DRY] line is
\* printed only under dry-run, right after the [DEL ] line of the same
\* branch, and under dry-run every [DEL ] line is followed by one.
C7_OneStatusLinePerBranch ==
    (pc = "for" \/ Completed) =>
        /\ Len(StatusLines) = i
        /\ \A k \in 1..i :
              /\ StatusLines[k].branch = branches[k]
              /\ StatusLines[k].tag \in {"[SKIP]", "[KEEP]", "[DEL ]"}
              /\ StatusLines[k].info # ""
        /\ Completed => i = Len(branches)
        /\ \A k \in DOMAIN out :
              out[k].tag = "[DRY]" =>
                  /\ opts.dry_run
                  /\ k > 1
                  /\ out[k - 1].tag = "[DEL ]"
                  /\ out[k - 1].branch = out[k].branch
        /\ \A k \in DOMAIN out :
              (out[k].tag = "[DEL ]" /\ opts.dry_run) =>
                  /\ k < Len(out)
                  /\ out[k + 1].tag = "[DRY]"

C7_Witness ==
    /\ Completed
    /\ Len(branches) = MaxBranches
    /\ opts.dry_run
    /\ \E k \in DOMAIN out : out[k].tag = "[DRY]"
    /\ \E k \in DOMAIN out : out[k].tag = "[SKIP]"

-----------------------------------------------------------------------------
(* C8 *)

\* C8: under dry-run git branch -d/-D is never run, with or without force:
\* the local branches stay those enumerated at the start, and every [DEL ]
\* line is followed by a [DRY] line giving the delete command of that branch.
C8_DryRunDeletesNothing ==
    opts.dry_run =>
        /\ ~GitBranchRun
        /\ (pc \in {"import", "cli", "clean"} \/ stderr # "") \/ refs = branches
        /\ \A k \in DOMAIN out : out[k].tag # "[DRY]" => out[k].info \notin {"git branch -d", "git branch -D"}
        /\ \A k \in DOMAIN out :
              out[k].tag = "[DEL ]" =>
                  /\ k < Len(out)
                  /\ out[k + 1] = Line("[DRY]", out[k].branch, DeleteCommand(opts.force))
        /\ DeleteInvoked => /\ cls.action = "Delete"
                            /\ out[Len(out)] = Line("[DRY]", b, DeleteCommand(opts.force))

C8_Witness ==
    /\ opts.dry_run /\ opts.force
    /\ DeleteInvoked
    /\ pc = "for"
    /\ b \in Range(refs)
    /\ out[Len(out)].tag = "[DRY]"

-----------------------------------------------------------------------------
(* C9 *)

\* C9: with checkRemoteMissing enabled, a failed remote-presence lookup does
\* not abort the run, and the branch is not classified Delete on the strength
\* of the failed lookup.
C9_FailedLookupIsConservative ==
    (opts.check_remote_missing /\ AtBranch /\ obs.lookup_failed) =>
        /\ ~(pc = "exit" /\ calls[Len(calls)] = "remote_branch_exists")
        /\ cls.action # "Delete"

-----------------------------------------------------------------------------
(* C10 *)

\* the facade calls of one branch, in the order of the guards that make them
CallOrder ==
    <<"upstream_for", "base_has_issue_closure", "tip_sha", "commit_in_base",
      "remote_branch_exists", "delete_branch", "git branch -d", "git branch -D">>

Rank(call) == CHOOSE r \in DOMAIN CallOrder : CallOrder[r] = call

\* the calls made when the guard that printed `reason` fires: those of the
\* enabled guards before it and its own
CallsUpTo(reason) ==
    LET upstream == IF opts.check_upstream_missing THEN <<"upstream_for">> ELSE << >>
        issue == IF opts.check_issue_closure THEN <<"base_has_issue_closure">> ELSE << >>
        ancestry == <<"tip_sha", "commit_in_base">>
    IN  CASE reason \in {"current", "protected", "critical"} -> << >>
          [] reason = "local-only or non-remote upstream" -> <<"upstream_for">>
          [] reason = "no issue id prefix for closure check" -> upstream
          [] reason = "no issue-closure marker on base" ->
                 upstream \o <<"base_has_issue_closure">>
          [] reason = "tip NOT in base" -> upstream \o issue \o ancestry
          [] reason = "exists on remote" ->
                 upstream \o issue \o ancestry \o <<"remote_branch_exists">>

\* b was classified Skip or Keep in this iteration
Decided == cls.action \in {"Skip", "Keep"}

\* C10: the calls made for a branch follow the guards' order (upstream
\* lookup, commit-log search, tip resolution, ancestry test, remote-heads
\* query, delete), each at most once; a branch classified Skip or Keep has
\* had exactly the calls of the enabled guards up to the one that fired, no
\* earlier guard would have fired for it, and the position after the decision
\* is the loop head or the end of the run: no later guard is entered.
C10_GuardsInOrderStopAtFirst ==
    /\ \A j, k \in DOMAIN calls : j < k => Rank(calls[j]) < Rank(calls[k])
    /\ Decided =>
          /\ calls = CallsUpTo(cls.reason)
          /\ pc \in {"for", "exit"}
          /\ cls.reason # "current" => b # cur
          /\ cls.reason \notin {"current", "protected"} => Lower(b) \notin protected
          /\ cls.reason \notin {"current", "protected", "critical"} =>
                Lower(b) \notin critical
          /\ cls.reason = "local-only or non-remote upstream" => opts.check_upstream_missing
          /\ cls.reason \in {"no issue id prefix for closure check",
                             "no issue-closure marker on base"} => opts.check_issue_closure
          /\ cls.reason = "exists on remote" => opts.check_remote_missing
          /\ out[Len(out)] =
                Line(IF cls.action = "Skip" THEN "[SKIP]" ELSE "[KEEP]", b, cls.reason)

C10_Witness ==
    /\ cls = [action |-> "Keep", reason |-> "exists on remote"]
    /\ opts.check_upstream_missing /\ opts.check_issue_closure /\ opts.check_remote_missing
    /\ Len(calls) = 5
    /\ i = MaxBranches

====
